---------------------------- MODULE Spec2Model ----------------------------
(* Key-matrix scan and debounce engine (halfdeck matrix.c).  The model     *)
(* follows matrix_init, matrix_power_up and matrix_scan statement by       *)
(* statement: pc is the position inside matrix_scan, the row pins are the  *)
(* AVR direction/port bits, and the physical keys, the expander and the    *)
(* millisecond timer are the environment.                                  *)
EXTENDS Integers, FiniteSets, Sequences, TLC

(* ------------------------------------------------------------------ *)
(* Program constants                                                   *)
(* ------------------------------------------------------------------ *)
MATRIX_ROWS == 6
MATRIX_COLS == 12
DIRECT_SHIFT == 6
DEBOUNCING_DELAY == 5

(* ------------------------------------------------------------------ *)
(* Bounds of the model                                                 *)
(* ------------------------------------------------------------------ *)
(* The timer is a uint32_t; the model keeps its modular arithmetic at a   *)
(* reduced width, wide enough that MaxTicks never laps it.               *)
TimerBits == 4
MaxTicks == 7
MaxChanges == 2
WrapLead == 3
(* Ticks the free-running clock of SpecLive may put between two commit   *)
(* checks: scan cycles come far more often than the timer laps.          *)
MaxGap == 2

Rows == 0 .. (MATRIX_ROWS - 1)
TimerMod == 2 ^ TimerBits
RowMod == 2 ^ 16

(* Physical keys the environment may hold down: <<row, column>>, columns  *)
(* 0..5 wired to the microcontroller pins, 6..11 to the expander.         *)
Keys == { <<2, 2>>, <<2, 5>>, <<2, 9>>, <<0, 3>> }
KeyStates == { {}, {<<2, 9>>}, {<<2, 2>>, <<2, 5>>, <<2, 9>>}, {<<0, 3>>},
               {<<0, 3>>, <<2, 9>>} }
KeyRows == { k[1] : k \in Keys }
StartTimes == { TimerMod - WrapLead }
Delays == { 0, DEBOUNCING_DELAY }

VARIABLES
  pc,                   \* position of the single thread of control
  delay,                \* DEBOUNCING_DELAY of the build (0: debounce compiled out)
  ddr, port,            \* row pins: direction and port latch
  sx_ready,             \* expander: make_ready done in this cycle
  sx_selected,          \* expander: rows activated by sx1509_select_row
  settled,              \* the settle wait after select_row has completed
  current_row, col, bits, last_row_value, matrix_changed,
  debouncing, matrix_debouncing, matrix, matrix_last_modified,
  ret,                  \* value returned by the last matrix_scan
  timer, keys, expander_ok,       \* environment
  ticks, changes,                 \* bounded environment budgets
  gap,                  \* free-running ticks after the last commit check
  quiet,                \* ticks elapsed after the last raw change of any row
  lastOp,               \* last completed operation
  matrix0, stable0,     \* Matrix / not-debouncing at the start of the operation
  committed,            \* the commit ran during the current scan cycle
  commitsSinceChange,   \* commits after the last raw change
  extended,             \* a raw change fell inside a running debounce window
  consecutive,          \* the operation before the current scan was a scan
  same,                 \* so far every row of this cycle read as it last did
  lastRaw,              \* per row: the RawRow its latest reads stand for
  directLow, expBits,   \* reads of the current row: low columns / expander mask
  readyCalls,           \* sx1509_make_ready calls of the current scan cycle
  scanned,              \* rows stored by the current scan cycle, in order
  commitEvals,          \* evaluations of the commit condition in this cycle
  frame0,               \* row pins and matrices at the call of read_cols_on_row
  expFailed,            \* an expander read of this cycle met a silent chip
  changedInCycle,       \* a row of the current cycle reported changed
  crossRow,             \* a row changed a tick or more after the still
                        \* uncommitted change of another row
  stampByMark           \* matrix_last_modified was last written by line 185

cfgVars == << delay >>
pinVars == << ddr, port >>
sxVars == << sx_ready, sx_selected >>
rowVars == << current_row, col, bits, last_row_value, matrix_changed, settled >>
debVars == << debouncing, matrix_debouncing, matrix, matrix_last_modified >>
envVars == << timer, keys, expander_ok, ticks, changes, gap >>
cycVars == << matrix0, stable0, committed, consecutive, same >>
histVars == << quiet, commitsSinceChange, extended, lastOp, lastRaw >>
readVars == << directLow, expBits >>
protoVars == << readyCalls, scanned, commitEvals >>
frameVars == << frame0 >>
spanVars == << expFailed, changedInCycle >>
burstVars == << crossRow, stampByMark >>
auxVars == << protoVars, frameVars, spanVars, burstVars >>

progVars == << cfgVars, pinVars, sxVars, rowVars, debVars, ret >>
ghostVars == << cycVars, histVars, readVars, auxVars >>
vars == << pc, progVars, envVars, ghostVars >>

(* ------------------------------------------------------------------ *)
(* Bit arithmetic on matrix_row_t (uint16_t)                           *)
(* ------------------------------------------------------------------ *)
Bit(x, i) == (x \div (2 ^ i)) % 2

RECURSIVE BitOr(_, _)
BitOr(a, b) ==
  IF a = 0 THEN b
  ELSE IF b = 0 THEN a
  ELSE (IF (a % 2 = 1) \/ (b % 2 = 1) THEN 1 ELSE 0)
       + 2 * BitOr(a \div 2, b \div 2)

ZeroMatrix == [r \in Rows |-> 0]

(* Value of frame0 outside read_cols_on_row *)
NoFrame == [m |-> ZeroMatrix, mx |-> ZeroMatrix,
            ddr |-> [r \in Rows |-> "input"], port |-> [r \in Rows |-> "high"]]

(* ------------------------------------------------------------------ *)
(* Pin driver, timer and expander gateway (collaborators)              *)
(* ------------------------------------------------------------------ *)
pinMode(d, r, mode) == [d EXCEPT ![r] = mode]
digitalWrite(p, r, level) == [p EXCEPT ![r] = level]

DrivenLow(r) == ddr[r] = "output" /\ port[r] = "low"
DrivenHigh(r) == ddr[r] = "output" /\ port[r] = "high"
InputPullup(r) == ddr[r] = "input" /\ port[r] = "high"

(* A column pin has a pull-up: it reads low exactly when a pressed key   *)
(* connects it to a row line that is driven low.                         *)
digitalRead(c) ==
  IF \E r \in Rows : DrivenLow(r) /\ <<r, c>> \in keys THEN "low" ELSE "high"

RECURSIVE MaskOf(_)
MaskOf(S) ==
  IF S = {} THEN 0
  ELSE LET c == CHOOSE x \in S : TRUE IN (2 ^ c) + MaskOf(S \ {c})

(* read_partial(row): the pressed expander columns of the row, aligned   *)
(* to the upper column half; all-zero when the chip does not respond.    *)
sx1509_read_b(row) ==
  IF expander_ok
  THEN MaskOf({ c \in (MATRIX_COLS \div 2) .. (MATRIX_COLS - 1) : <<row, c>> \in keys })
  ELSE 0

(* Expander gateway: select_row(row) activates a row line of the chip,   *)
(* unselect_rows() deactivates all of them.                              *)
sx1509_select_row(sel, row) == sel \cup {row}
sx1509_unselect_rows(sel) == {}

timer_read32 == timer
timer_elapsed32(last) == (timer_read32 - last + TimerMod) % TimerMod

(* ------------------------------------------------------------------ *)
(* Matrix state store                                                  *)
(* ------------------------------------------------------------------ *)
matrix_get_row(row) == matrix[row]
matrix_is_on(row, c) == Bit(matrix[row], c) = 1

UsesPending_always == TRUE

(* lines 173-179: read_cols_on_row is handed matrix_debouncing when the  *)
(* debounce code is compiled in, matrix otherwise.                       *)
UsesPending == delay > 0

current_matrix == IF UsesPending THEN matrix_debouncing ELSE matrix

(* ------------------------------------------------------------------ *)
(* Initial state: the microcontroller after reset, before matrix_init  *)
(* ------------------------------------------------------------------ *)
Init ==
  /\ pc = "reset"
  /\ delay \in Delays
  /\ ddr = [r \in Rows |-> "input"]
  /\ port = [r \in Rows |-> "low"]
  /\ sx_ready = FALSE
  /\ sx_selected = {}
  /\ settled = FALSE
  /\ current_row = 0
  /\ col = 0
  /\ bits = 0
  /\ last_row_value = 0
  /\ matrix_changed = FALSE
  /\ debouncing = FALSE
  /\ matrix_debouncing = ZeroMatrix
  /\ matrix = ZeroMatrix
  /\ matrix_last_modified = 0
  /\ ret = 0
  /\ timer \in StartTimes
  /\ keys = {}
  /\ expander_ok = TRUE
  /\ ticks = 0
  /\ changes = 0
  /\ gap = 0
  /\ quiet = 0
  /\ lastOp = "none"
  /\ matrix0 = ZeroMatrix
  /\ stable0 = TRUE
  /\ committed = FALSE
  /\ commitsSinceChange = 0
  /\ extended = FALSE
  /\ consecutive = FALSE
  /\ same = TRUE
  /\ lastRaw = ZeroMatrix
  /\ directLow = {}
  /\ expBits = 0
  /\ readyCalls = 0
  /\ scanned = << >>
  /\ commitEvals = 0
  /\ frame0 = NoFrame
  /\ expFailed = FALSE
  /\ changedInCycle = FALSE
  /\ crossRow = FALSE
  /\ stampByMark = FALSE

(* ------------------------------------------------------------------ *)
(* select_row / unselect_row / unselect_rows                           *)
(* ------------------------------------------------------------------ *)
(* line 74 *)
select_row_dir(d, row) == pinMode(d, row, "output")
(* line 75 *)
select_row_level(p, row) == digitalWrite(p, row, "low")
unselect_row_level_low(p, row) == digitalWrite(p, row, "low")

(* line 82 *)
unselect_row_level(p, row) == digitalWrite(p, row, "high")

unselect_row_dir_stuck(d, row) == d

(* line 83 *)
unselect_row_dir(d, row) == pinMode(d, row, "input")

unselect_row(pins, row) ==
  LET p1 == unselect_row_level(pins.port, row)
      d1 == unselect_row_dir(pins.ddr, row)
  IN  [ddr |-> d1, port |-> p1]

RECURSIVE unselect_rows_from(_, _)
unselect_rows_from(pins, x) ==
  IF x < MATRIX_ROWS THEN unselect_rows_from(unselect_row(pins, x), x + 1)
  ELSE pins

unselect_rows(pins) == unselect_rows_from(pins, 0)

(* matrix_init, lines 123-126: every row an output, written high *)
RECURSIVE init_rows_from(_, _)
init_rows_from(pins, row) ==
  IF row < MATRIX_ROWS
  THEN init_rows_from([ddr |-> pinMode(pins.ddr, row, "output"),
                       port |-> digitalWrite(pins.port, row, "high")], row + 1)
  ELSE pins

(* ------------------------------------------------------------------ *)
(* matrix_power_up and matrix_init                                     *)
(* ------------------------------------------------------------------ *)
PowerUpMatrix_kept == matrix

(* line 101 *)
PowerUpMatrix == ZeroMatrix

(* line 103 *)
PowerUpPending == ZeroMatrix

(* matrix_power_up holds no assignment to the debounce flag *)
PowerUpDebouncing == debouncing

(* lines 96-113, from the row pins in the state pins *)
PowerUpEffects(pins) ==
  LET after == unselect_rows(pins) IN
  /\ ddr' = after.ddr
  /\ port' = after.port
  /\ sx_selected' = sx1509_unselect_rows(sx_selected)
  /\ matrix' = PowerUpMatrix
  /\ matrix_debouncing' = PowerUpPending
  /\ debouncing' = PowerUpDebouncing
  /\ matrix_last_modified' = timer_read32
  /\ matrix0' = matrix
  /\ stable0' = ~debouncing
  /\ extended' = FALSE
  /\ UNCHANGED << cfgVars, sx_ready, rowVars, ret, envVars, readVars >>
  /\ crossRow' = FALSE
  /\ stampByMark' = FALSE
  /\ UNCHANGED << committed, consecutive, same, quiet, commitsSinceChange,
                  lastRaw, protoVars, frameVars, spanVars >>

(* lines 115-129 *)
MatrixInit ==
  /\ pc = "reset"
  /\ PowerUpEffects(init_rows_from([ddr |-> ddr, port |-> port], 0))
  /\ pc' = "idle"
  /\ lastOp' = "init"

MatrixPowerUp ==
  /\ pc = "idle"
  /\ PowerUpEffects([ddr |-> ddr, port |-> port])
  /\ pc' = "idle"
  /\ lastOp' = "power_up"

(* ------------------------------------------------------------------ *)
(* matrix_scan -> matrix_scan_raw -> read_cols_on_row, by statement     *)
(* ------------------------------------------------------------------ *)
(* line 214: the call *)
ScanBegin ==
  /\ pc = "idle"
  /\ pc' = "make_ready"
  /\ sx_ready' = FALSE
  /\ matrix0' = matrix
  /\ stable0' = ~debouncing
  /\ committed' = FALSE
  /\ consecutive' = (lastOp = "scan")
  /\ same' = TRUE
  /\ readyCalls' = 0
  /\ scanned' = << >>
  /\ commitEvals' = 0
  /\ expFailed' = FALSE
  /\ changedInCycle' = FALSE
  /\ UNCHANGED << cfgVars, pinVars, sx_selected, rowVars, debVars, ret,
                  envVars, histVars, readVars, frameVars, burstVars >>

(* line 172: the row loop starts at row 0 and steps by one *)
FirstRow == 0

LoopStep_skip(row) == row + 2

LoopStep(row) == row + 1

(* line 170, and the loop initialisation of line 172 *)
MakeReady ==
  /\ pc = "make_ready"
  /\ sx_ready' = TRUE
  /\ readyCalls' = readyCalls + 1
  /\ current_row' = FirstRow
  /\ pc' = "save"
  /\ UNCHANGED << cfgVars, pinVars, sx_selected, col, bits, last_row_value,
                  matrix_changed, settled, debVars, ret, envVars, cycVars,
                  histVars, readVars, scanned, commitEvals, frameVars,
                  spanVars, burstVars >>

(* line 140 *)
SaveLast ==
  /\ pc = "save"
  /\ last_row_value' = current_matrix[current_row]
  /\ directLow' = {}
  /\ expBits' = 0
  /\ frame0' = [m |-> current_matrix, mx |-> matrix, ddr |-> ddr, port |-> port]
  /\ pc' = "sel_mode"
  /\ UNCHANGED << cfgVars, pinVars, sxVars, current_row, col, bits,
                  matrix_changed, settled, debVars, ret, envVars, cycVars,
                  histVars, protoVars, spanVars, burstVars >>

(* line 74 *)
SelectRowMode ==
  /\ pc = "sel_mode"
  /\ ddr' = select_row_dir(ddr, current_row)
  /\ settled' = FALSE
  /\ pc' = "sel_write"
  /\ UNCHANGED << cfgVars, port, sxVars, current_row, col, bits,
                  last_row_value, matrix_changed, debVars, ret, envVars,
                  ghostVars >>

(* line 75 *)
SelectRowWrite ==
  /\ pc = "sel_write"
  /\ port' = select_row_level(port, current_row)
  /\ pc' = "sel_sx"
  /\ UNCHANGED << cfgVars, ddr, sxVars, rowVars, debVars, ret, envVars,
                  ghostVars >>

(* line 76 *)
SelectRowSx ==
  /\ pc = "sel_sx"
  /\ sx_selected' = sx1509_select_row(sx_selected, current_row)
  /\ pc' = "delay"
  /\ UNCHANGED << cfgVars, pinVars, sx_ready, rowVars, debVars, ret, envVars,
                  ghostVars >>

(* lines 144-146, and the loop initialisation of line 149 *)
SettleDelay ==
  /\ pc = "delay"
  /\ settled' = TRUE
  /\ bits' = 0
  /\ col' = 0
  /\ pc' = "readcol"
  /\ UNCHANGED << cfgVars, pinVars, sxVars, current_row, last_row_value,
                  matrix_changed, debVars, ret, envVars, ghostVars >>

DirectBit_low(c) == 2 ^ c

(* line 151: the bit a directly wired column is stored at *)
DirectBit(c) == 2 ^ (c + DIRECT_SHIFT)

(* lines 149-153, one iteration *)
ReadCol ==
  /\ pc = "readcol"
  /\ bits' = IF digitalRead(col) = "low"
             THEN BitOr(bits, DirectBit(col)) % RowMod
             ELSE bits
  /\ directLow' = IF digitalRead(col) = "low" THEN directLow \cup {col}
                  ELSE directLow
  /\ col' = col + 1
  /\ pc' = IF col + 1 < MATRIX_COLS \div 2 THEN "readcol" ELSE "readexp"
  /\ UNCHANGED << cfgVars, pinVars, sxVars, current_row, last_row_value,
                  matrix_changed, settled, debVars, ret, envVars, cycVars,
                  histVars, expBits, auxVars >>

Merge_assign(direct, expander) == expander

(* line 156: the merge of the two halves *)
Merge(direct, expander) == BitOr(direct, expander) % RowMod

ReadExpander ==
  /\ pc = "readexp"
  /\ bits' = Merge(bits, sx1509_read_b(current_row))
  /\ expBits' = sx1509_read_b(current_row)
  /\ expFailed' = (expFailed \/ ~expander_ok)
  /\ pc' = "store"
  /\ UNCHANGED << cfgVars, pinVars, sxVars, current_row, col, last_row_value,
                  matrix_changed, settled, debVars, ret, envVars, cycVars,
                  histVars, directLow, protoVars, frameVars, changedInCycle,
                  burstVars >>

(* The RawRow the recorded reads stand for: bit c+6 for every directly   *)
(* wired column c that read low, and the bits the expander returned.     *)
RawOf(dl, eb) ==
  MaskOf({ i \in 0 .. 15 : (i >= DIRECT_SHIFT /\ (i - DIRECT_SHIFT) \in dl)
                           \/ Bit(eb, i) = 1 })

(* line 158 *)
StoreRow ==
  /\ pc = "store"
  /\ IF UsesPending
     THEN /\ matrix_debouncing' = [matrix_debouncing EXCEPT ![current_row] = bits]
          /\ matrix' = matrix
     ELSE /\ matrix' = [matrix EXCEPT ![current_row] = bits]
          /\ matrix_debouncing' = matrix_debouncing
  /\ lastRaw' = [lastRaw EXCEPT ![current_row] = RawOf(directLow, expBits)]
  /\ same' = (same /\ lastRaw[current_row] = RawOf(directLow, expBits))
  /\ pc' = "unsel_write"
  /\ UNCHANGED << cfgVars, pinVars, sxVars, rowVars, debouncing,
                  matrix_last_modified, ret, envVars, readVars >>
  /\ scanned' = Append(scanned, current_row)
  /\ UNCHANGED << matrix0, stable0, committed, consecutive, quiet,
                  commitsSinceChange, extended, lastOp, readyCalls,
                  commitEvals, frameVars, spanVars, burstVars >>

(* line 82 *)
UnselectRowWrite ==
  /\ pc = "unsel_write"
  /\ port' = unselect_row_level(port, current_row)
  /\ pc' = "unsel_mode"
  /\ UNCHANGED << cfgVars, ddr, sxVars, rowVars, debVars, ret, envVars,
                  ghostVars >>

RowChanged_always == TRUE

RowChanged_vsMatrix == matrix[current_row] # current_matrix[current_row]

(* line 162: the changed flag of read_cols_on_row *)
RowChanged == last_row_value # current_matrix[current_row]

(* line 83, then the return of line 162 *)
UnselectRowMode ==
  /\ pc = "unsel_mode"
  /\ ddr' = unselect_row_dir(ddr, current_row)
  /\ matrix_changed' = RowChanged
  /\ pc' = "mark"
  /\ UNCHANGED << cfgVars, port, sxVars, current_row, col, bits,
                  last_row_value, settled, debVars, ret, envVars, ghostVars >>

MarkTime_first == IF debouncing THEN matrix_last_modified ELSE timer_read32

(* line 185: the time a changed row stamps into matrix_last_modified *)
MarkTime == timer_read32

(* lines 181-186, then the loop step of line 172 *)
MarkChanged ==
  /\ pc = "mark"
  /\ IF matrix_changed
     THEN /\ debouncing' = IF delay > 0 THEN TRUE ELSE debouncing
          /\ matrix_last_modified' = MarkTime
          /\ quiet' = 0
          /\ commitsSinceChange' = 0
          /\ extended' = (debouncing /\ quiet > 0 /\ quiet < delay)
          /\ stampByMark' = TRUE
     ELSE UNCHANGED << debouncing, matrix_last_modified, quiet,
                       commitsSinceChange, extended, stampByMark >>
  /\ crossRow' =
       \/ crossRow
       \/ /\ matrix_changed
          /\ delay > 0
          /\ debouncing
          /\ quiet > 0
          /\ \E r \in Rows \ {current_row} : matrix_debouncing[r] # matrix[r]
  /\ changedInCycle' = (changedInCycle \/ matrix_changed)
  /\ IF LoopStep(current_row) < MATRIX_ROWS
     THEN current_row' = LoopStep(current_row) /\ pc' = "save"
     ELSE current_row' = current_row /\ pc' = "commit"
  /\ UNCHANGED << cfgVars, pinVars, sxVars, col, bits, last_row_value,
                  matrix_changed, settled, matrix_debouncing, matrix, ret,
                  envVars, cycVars, lastOp, lastRaw, readVars, protoVars,
                  frameVars, expFailed >>

DebounceElapsed_nowrap ==
  debouncing /\ timer_read32 - matrix_last_modified > DEBOUNCING_DELAY

DebounceElapsed_nowait == debouncing

DebounceElapsed_early ==
  debouncing /\ timer_elapsed32(matrix_last_modified) >= DEBOUNCING_DELAY

(* lines 204-205: the commit condition *)
DebounceElapsed ==
  debouncing /\ timer_elapsed32(matrix_last_modified) > DEBOUNCING_DELAY

CommitValue_stale == matrix

CommitValue_zero == ZeroMatrix

CommitValue_partial == [matrix EXCEPT ![FirstRow] = matrix_debouncing[FirstRow]]

(* line 206: what the commit copies into matrix *)
CommitValue == matrix_debouncing

(* lines 203-209 *)
Commit ==
  /\ pc = "commit"
  /\ IF delay > 0 /\ DebounceElapsed
     THEN /\ matrix' = CommitValue
          /\ debouncing' = FALSE
          /\ committed' = TRUE
          /\ commitsSinceChange' = commitsSinceChange + 1
     ELSE UNCHANGED << matrix, debouncing, committed, commitsSinceChange >>
  /\ commitEvals' = IF delay > 0 THEN commitEvals + 1 ELSE commitEvals
  /\ gap' = 0
  /\ pc' = "scan_ret"
  /\ UNCHANGED << cfgVars, pinVars, sxVars, rowVars, matrix_debouncing,
                  matrix_last_modified, ret, timer, keys, expander_ok, ticks,
                  changes, readVars >>
  /\ UNCHANGED << matrix0, stable0, consecutive, same, quiet, extended,
                  lastOp, lastRaw, readyCalls, scanned, frameVars, spanVars,
                  burstVars >>

ScanRawResult_commit == IF committed THEN 1 ELSE 0

ScanRawResult_fault == IF expFailed THEN 0 ELSE 1

(* line 211: what matrix_scan_raw returns *)
ScanRawResult == 1

(* lines 214-221 *)
ScanReturn ==
  /\ pc = "scan_ret"
  /\ ret' = IF ScanRawResult = 0 THEN 0 ELSE 1
  /\ lastOp' = "scan"
  /\ pc' = "idle"
  /\ matrix0' = matrix
  /\ stable0' = ~debouncing
  /\ consecutive' = FALSE
  /\ same' = TRUE
  /\ directLow' = {}
  /\ expBits' = 0
  /\ UNCHANGED << cfgVars, pinVars, sxVars, rowVars, debVars, envVars >>
  /\ readyCalls' = 0
  /\ scanned' = << >>
  /\ commitEvals' = 0
  /\ frame0' = NoFrame
  /\ changedInCycle' = FALSE
  /\ crossRow' = (crossRow /\ ~committed)
  /\ UNCHANGED << committed, quiet, commitsSinceChange, extended, lastRaw,
                  expFailed, stampByMark >>

(* ------------------------------------------------------------------ *)
(* Environment: the millisecond timer, the keys, the expander chip.    *)
(* The program observes the timer only in timer_read32 and the keys    *)
(* only in digitalRead / sx1509_read_b, and only the rows of Keys can  *)
(* read pressed, so the environment moves right before those reads.    *)
(* ------------------------------------------------------------------ *)
TimerReadNext ==
  IF pc = "idle" THEN TRUE
  ELSE IF pc = "mark" THEN matrix_changed
  ELSE IF pc = "commit" THEN delay > 0 /\ debouncing
  ELSE FALSE

Tick ==
  /\ TimerReadNext
  /\ ticks < MaxTicks
  /\ timer' = (timer + 1) % TimerMod
  /\ ticks' = ticks + 1
  /\ quiet' = quiet + 1
  /\ UNCHANGED << pc, progVars, keys, expander_ok, changes, gap, cycVars,
                  readVars >>
  /\ UNCHANGED << commitsSinceChange, extended, lastOp, lastRaw, auxVars >>

KeyChange ==
  /\ pc \in {"readcol", "readexp"}
  /\ current_row \in KeyRows
  /\ changes < MaxChanges
  /\ \E k \in KeyStates \ {keys} : keys' = k
  /\ changes' = changes + 1
  /\ UNCHANGED << pc, progVars, timer, expander_ok, ticks, gap, ghostVars >>

ExpanderToggle ==
  /\ pc = "readexp"
  /\ changes < MaxChanges
  /\ expander_ok' = ~expander_ok
  /\ changes' = changes + 1
  /\ UNCHANGED << pc, progVars, timer, keys, ticks, gap, ghostVars >>

Next ==
  \/ MatrixInit
  \/ MatrixPowerUp
  \/ ScanBegin
  \/ MakeReady
  \/ SaveLast
  \/ SelectRowMode
  \/ SelectRowWrite
  \/ SelectRowSx
  \/ SettleDelay
  \/ ReadCol
  \/ ReadExpander
  \/ StoreRow
  \/ UnselectRowWrite
  \/ UnselectRowMode
  \/ MarkChanged
  \/ Commit
  \/ ScanReturn
  \/ Tick
  \/ KeyChange

Spec == Init /\ [][Next]_vars

(* The same program with an expander chip that may stop responding. *)
NextFault == Next \/ ExpanderToggle
SpecFault == Init /\ [][NextFault]_vars

(* The program in its main loop: matrix_init once, then matrix_scan      *)
(* again and again, under a clock that never stops.  A tick is seen at   *)
(* the next read of the timer, so the clock steps right before the reads *)
(* inside matrix_scan.  The history counters ticks and quiet count the   *)
(* budgeted Tick only and stand still here.                              *)
TickOn ==
  /\ TimerReadNext
  /\ pc # "idle"
  /\ gap < MaxGap
  /\ timer' = (timer + 1) % TimerMod
  /\ gap' = gap + 1
  /\ UNCHANGED << pc, progVars, keys, expander_ok, ticks, changes, ghostVars >>

ProgramStep ==
  \/ MatrixInit
  \/ ScanBegin
  \/ MakeReady
  \/ SaveLast
  \/ SelectRowMode
  \/ SelectRowWrite
  \/ SelectRowSx
  \/ SettleDelay
  \/ ReadCol
  \/ ReadExpander
  \/ StoreRow
  \/ UnselectRowWrite
  \/ UnselectRowMode
  \/ MarkChanged
  \/ Commit
  \/ ScanReturn

NextLive == ProgramStep \/ TickOn \/ KeyChange

SpecLive ==
  /\ Init
  /\ [][NextLive]_vars
  /\ WF_vars(ProgramStep)
  /\ SF_vars(TickOn)

(* ------------------------------------------------------------------ *)
(* Row lines                                                           *)
(* ------------------------------------------------------------------ *)
DrivenLowRows == { r \in Rows : DrivenLow(r) }
InSelectWindow == pc \in {"sel_write", "sel_sx", "delay", "readcol", "readexp",
                          "store", "unsel_write", "unsel_mode"}

(* C1 as stated: after matrix_init, in every state (the steps inside     *)
(* read_cols_on_row included) at most one row line is an output driven   *)
(* low and every other row line is an input with pull-up.                *)
C1_SingleDriverAsStated ==
  pc # "reset" =>
    /\ Cardinality(DrivenLowRows) <= 1
    /\ \A r \in Rows : DrivenLow(r) \/ InputPullup(r)

(* C1 amended: after matrix_init at most one row line is driven low, and *)
(* the only row line that is ever not an input with pull-up is the row   *)
(* being scanned: an output driven low while it is selected, and an      *)
(* output driven high for the one step between pinMode and digitalWrite  *)
(* in select_row and between digitalWrite and pinMode in unselect_row.   *)
C1_SingleDriver ==
  pc # "reset" =>
    /\ Cardinality(DrivenLowRows) <= 1
    /\ \A r \in Rows :
         \/ InputPullup(r)
         \/ /\ r = current_row
            /\ InSelectWindow
            /\ IF pc \in {"sel_write", "unsel_mode"} THEN DrivenHigh(r)
               ELSE DrivenLow(r)

(* C1 witness: row 2 is driven low while its columns are read, a key of  *)
(* another row being held.                                               *)
C1_Witness ==
  /\ pc = "readexp"
  /\ current_row = 2
  /\ DrivenLow(2)
  /\ <<0, 3>> \in keys

(* ------------------------------------------------------------------ *)
(* Debounce filter                                                     *)
(* ------------------------------------------------------------------ *)
(* C2 as stated: once the last raw change is delay old at a scan cycle,  *)
(* that cycle has brought Matrix up to the pending value (the commit     *)
(* comes at the first cycle whose time is >= t + delay).                 *)
C2_QuiescenceAsStated ==
  (delay > 0 /\ pc = "scan_ret" /\ quiet >= delay) =>
    \A r \in Rows : matrix[r] = matrix_debouncing[r]

(* C2 amended: a cycle whose commit check comes more than delay after    *)
(* the last raw change of any row leaves Matrix equal to the pending     *)
(* value, and no cycle commits unless more than delay has elapsed since  *)
(* the last raw change: the commit comes at the first cycle whose time   *)
(* is > t + delay, and not before.                                       *)
C2_Quiescence ==
  (delay > 0 /\ pc = "scan_ret") =>
    /\ quiet > delay => \A r \in Rows : matrix[r] = matrix_debouncing[r]
    /\ committed => quiet > delay

(* C2 witness: the press of row 2 column 9 is committed by a cycle. *)
C2_Witness ==
  /\ delay > 0
  /\ pc = "scan_ret"
  /\ committed
  /\ matrix0[2] = 0
  /\ matrix[2] = 2 ^ 9

C5_Idempotent ==
  (pc = "scan_ret" /\ consecutive /\ stable0 /\ same) =>
    /\ \A r \in Rows : matrix[r] = matrix0[r]
    /\ ~debouncing
    /\ ~committed

(* C5 witness: such a cycle with a committed key still held. *)
C5_Witness ==
  /\ pc = "scan_ret"
  /\ consecutive
  /\ stable0
  /\ same
  /\ delay > 0
  /\ matrix[2] # 0
  /\ keys # {}

(* C6: with debounce delay 0 every scan cycle leaves Matrix[r] equal to  *)
(* the RawRow its reads of row r stand for, and neither the settling     *)
(* flag nor the pending matrix is ever written.                          *)
C6_ZeroDelay ==
  delay = 0 =>
    /\ pc = "scan_ret" => \A r \in Rows : matrix[r] = lastRaw[r]
    /\ ~debouncing
    /\ matrix_debouncing = ZeroMatrix

(* C6 witness: a zero-delay cycle that sampled three keys of row 2. *)
C6_Witness ==
  /\ delay = 0
  /\ pc = "scan_ret"
  /\ lastRaw[2] = 2 ^ 8 + 2 ^ 9 + 2 ^ 11
  /\ matrix0[2] = 0

(* ------------------------------------------------------------------ *)
(* Merge of the two column halves                                      *)
(* ------------------------------------------------------------------ *)
RowBits(x) == { i \in 0 .. 15 : Bit(x, i) = 1 }

C8_PowerUpReset ==
  (pc = "idle" /\ lastOp = "power_up") =>
    \A r \in Rows : matrix_get_row(r) = 0

(* C8 witness: matrix_power_up has run over a Matrix with a key in it. *)
C8_Witness ==
  /\ pc = "idle"
  /\ lastOp = "power_up"
  /\ matrix0[2] # 0

(* C9: after matrix_power_up the filter is Stable: Matrix and the        *)
(* pending matrix all-zero and the settling flag false.                  *)
C9_PowerUpStable ==
  (pc = "idle" /\ lastOp = "power_up") =>
    /\ matrix = ZeroMatrix
    /\ matrix_debouncing = ZeroMatrix
    /\ ~debouncing

(* C10: between operations, with debounce delay > 0, a false settling    *)
(* flag means the pending matrix equals Matrix row for row.              *)
C10_StableEqual ==
  (delay > 0 /\ pc = "idle" /\ ~debouncing) =>
    \A r \in Rows : matrix_debouncing[r] = matrix[r]

(* C10 witness: Stable between operations with a committed key. *)
C10_Witness ==
  /\ delay > 0
  /\ pc = "idle"
  /\ ~debouncing
  /\ matrix[2] # 0

(* ------------------------------------------------------------------ *)
(* Commit of the whole matrix                                          *)
(* ------------------------------------------------------------------ *)
(* C11: with debounce delay > 0 Matrix is never partially updated.       *)
(* Inside a scan cycle Matrix is as the cycle found it in every row      *)
(* until the commit step, after which it is as found or equal in every   *)
(* row to the pending matrix of the end of the cycle; the only other     *)
(* step that changes Matrix is matrix_power_up, which zeroes every row.  *)
C11_WholeCommit ==
  /\ [](( delay > 0 /\ pc \notin {"reset", "idle"} ) =>
          \/ \A r \in Rows : matrix[r] = matrix0[r]
          \/ pc = "scan_ret" /\ \A r \in Rows : matrix[r] = matrix_debouncing[r])
  /\ [][ (delay > 0 /\ matrix' # matrix) =>
           \/ /\ pc = "commit"
              /\ pc' = "scan_ret"
              /\ matrix' = matrix_debouncing'
           \/ /\ pc = "idle"
              /\ pc' = "idle"
              /\ matrix' = ZeroMatrix ]_vars

(* C11 witness: one commit has brought two rows into Matrix. *)
C11_Witness ==
  /\ delay > 0
  /\ pc = "scan_ret"
  /\ committed
  /\ matrix[0] # matrix0[0]
  /\ matrix[2] # matrix0[2]

(* ------------------------------------------------------------------ *)
(* Placement of the two column halves                                  *)
(* ------------------------------------------------------------------ *)
UpperHalf == (MATRIX_COLS \div 2) .. (MATRIX_COLS - 1)
LowerHalf == 0 .. ((MATRIX_COLS \div 2) - 1)

AllRows == [i \in 1 .. MATRIX_ROWS |-> i - 1]

C14_DisciplineAsStated ==
  pc # "reset" =>
    /\ Cardinality(DrivenLowRows) <= 1
    /\ Cardinality(sx_selected) <= 1
    /\ \A r \in DrivenLowRows : sx_selected \subseteq {r}
    /\ pc \in {"readcol", "readexp"} =>
         /\ settled
         /\ DrivenLowRows = {current_row}
         /\ sx_selected = {current_row}

(* ------------------------------------------------------------------ *)
(* Scan cycle protocol                                                 *)
(* ------------------------------------------------------------------ *)
RowPrefix(n) == [i \in 1 .. n |-> i - 1]

(* C15: every scan cycle calls sx1509_make_ready once, before any row is *)
(* activated and before any expander read; it scans the rows once each   *)
(* in the order 0 .. MATRIX_ROWS-1; and in a build with debounce it      *)
(* evaluates the commit condition once, after the last row.              *)
C15_Protocol ==
  /\ pc \notin {"reset", "idle", "make_ready"} => (readyCalls = 1 /\ sx_ready)
  /\ pc \in {"reset", "idle", "make_ready"} => DrivenLowRows = {}
  /\ pc \in {"save", "sel_mode", "sel_write", "sel_sx", "delay", "readcol",
             "readexp", "store"} =>
       (scanned = RowPrefix(current_row) /\ commitEvals = 0)
  /\ pc \in {"unsel_write", "unsel_mode", "mark"} =>
       (scanned = RowPrefix(current_row + 1) /\ commitEvals = 0)
  /\ pc = "commit" => (scanned = AllRows /\ commitEvals = 0)
  /\ pc = "scan_ret" =>
       /\ scanned = AllRows
       /\ delay > 0 => commitEvals = 1

(* C15 witness: a cycle of the debounce build has run to its end and     *)
(* its one evaluation of the commit condition committed.                 *)
C15_Witness ==
  /\ delay > 0
  /\ pc = "scan_ret"
  /\ readyCalls = 1
  /\ scanned = AllRows
  /\ commitEvals = 1
  /\ committed

(* ------------------------------------------------------------------ *)
(* Frame of read_cols_on_row                                           *)
(* ------------------------------------------------------------------ *)
(* C16: from its call to its return read_cols_on_row(m, r) leaves every  *)
(* row pin other than r as it was and every entry of m other than m[r]   *)
(* as it was, and with debounce leaves Matrix as it was; on return row   *)
(* pin r is an input with pull-up.                                       *)
C16_Frame ==
  pc \in {"sel_mode", "sel_write", "sel_sx", "delay", "readcol", "readexp",
          "store", "unsel_write", "unsel_mode", "mark"} =>
    /\ \A r \in Rows \ {current_row} :
         /\ ddr[r] = frame0.ddr[r]
         /\ port[r] = frame0.port[r]
         /\ current_matrix[r] = frame0.m[r]
    /\ delay > 0 => matrix = frame0.mx
    /\ pc = "mark" => InputPullup(current_row)

(* C16 witness: read_cols_on_row has returned from row 2 with a new      *)
(* value in m[2], m[0] holding a key and Matrix a committed key.         *)
C16_Witness ==
  /\ delay > 0
  /\ pc = "mark"
  /\ current_row = 2
  /\ matrix_debouncing[2] # frame0.m[2]
  /\ frame0.m[0] # 0
  /\ matrix # ZeroMatrix

(* ------------------------------------------------------------------ *)
(* The one debounce clock                                              *)
(* ------------------------------------------------------------------ *)
(* C17: with debounce, the changed flag of a row says that its new       *)
(* RawRow differs from the pending value the row had at the call (not    *)
(* from Matrix); a change in any row sets the settling flag and stamps   *)
(* the one matrix_last_modified; so while the change of a row is         *)
(* pending, a later change (of this or another row) keeps every row out  *)
(* of Matrix until a commit check that comes more than the delay after   *)
(* the most recent change of any row.                                    *)
C17_SharedClock ==
  delay > 0 =>
    /\ pc = "mark" =>
         (matrix_changed <=>
            matrix_debouncing[current_row] # frame0.m[current_row])
    /\ (matrix_changed /\ pc # "mark") =>
         (debouncing /\ timer_elapsed32(matrix_last_modified) = quiet)
    /\ (pc = "scan_ret" /\ crossRow /\ quiet <= delay) =>
         /\ ~committed
         /\ debouncing
         /\ \A r \in Rows : matrix[r] = matrix0[r]
    /\ (pc = "scan_ret" /\ committed) => quiet > delay

(* C17 witness: the change of one row came a tick or more before the     *)
(* change of another row, which is now exactly the delay old: the first  *)
(* change has been pending for more than the delay, and the later one    *)
(* has kept it out of Matrix.                                            *)
C17_Witness ==
  /\ delay > 0
  /\ pc = "scan_ret"
  /\ crossRow
  /\ quiet = delay
  /\ ~committed
  /\ matrix_debouncing[0] # matrix[0]
  /\ matrix_debouncing[2] # matrix[2]

(* ------------------------------------------------------------------ *)
(* Timer wraparound                                                    *)
(* ------------------------------------------------------------------ *)
Straddles == matrix_last_modified > timer

CycleAdvance == IF changedInCycle THEN quiet ELSE 0

(* C20: with debounce, in a scan cycle during which the clock advances   *)
(* by no more than the delay, a commit happens only if no row reported   *)
(* changed: the committed Matrix is the pending matrix that this cycle   *)
(* re-read row for row, and, the previous operation being a scan too,    *)
(* every row read as that scan read it, so a raw value seen by one scan  *)
(* and gone by the next never reaches Matrix.                            *)
C20_NoChangingCommit ==
  (delay > 0 /\ pc = "scan_ret" /\ committed /\ CycleAdvance <= delay) =>
    /\ ~changedInCycle
    /\ \A r \in Rows : matrix[r] = matrix_debouncing[r] /\ matrix[r] = lastRaw[r]
    /\ consecutive => same

(* C20 witness: a cycle that followed a scan and re-read the pending     *)
(* press of row 2 column 9 unchanged has committed it.                   *)
C20_Witness ==
  /\ delay > 0
  /\ pc = "scan_ret"
  /\ committed
  /\ consecutive
  /\ ~changedInCycle
  /\ matrix0[2] = 0
  /\ matrix[2] = 2 ^ 9

(* ------------------------------------------------------------------ *)
(* Eventual settlement                                                 *)
(* ------------------------------------------------------------------ *)
Settled ==
  delay > 0 => (~debouncing /\ \A r \in Rows : matrix[r] = lastRaw[r])

(* C19: with debounce, when the sampled column values stop changing,     *)
(* matrix_scan keeps being called and the clock keeps advancing, the     *)
(* filter eventually is Stable with Matrix equal in every row to the     *)
(* sampled raw matrix, and stays so.                                     *)
C19_Settles == <>[]Settled

(* C19 witness: the keys have stopped changing with row 2 column 9 held, *)
(* and the filter has come to rest on it.                                *)
C19_Witness ==
  /\ delay > 0
  /\ changes = MaxChanges
  /\ keys = {<<2, 9>>}
  /\ pc = "idle"
  /\ ~debouncing
  /\ matrix[2] = 2 ^ 9
  /\ lastRaw = matrix

=============================================================================
